---- MODULE Spec2Model ----
(***************************************************************************)
(* disk/disk_windows.go: PartitionsWithContext, IOCountersWithContext.     *)
(*                                                                         *)
(* Two tasks: the producer goroutine getPartitions, which walks the native *)
(* volume cursor (FindFirstVolume / FindNextVolume / FindVolumeClose),     *)
(* resolves every volume and offers one PartitionStat per mount path on    *)
(* the unbuffered channel retChan; and the consumer loop of                *)
(* PartitionsWithContext, which selects on retChan and ctx.Done().         *)
(*                                                                         *)
(* Every native call is a step of its own whose outcome the environment    *)
(* chooses.  What the native calls returned is logged in `volumes`, so     *)
(* that results can be compared with what the host looked like.            *)
(*                                                                         *)
(* IOCountersWithContext is a sequential function with a specification of  *)
(* its own (IOSpec), and so is the construction of one PartitionStat from  *)
(* the flags GetVolumeInformation returned (OptsSpec).                     *)
(***************************************************************************)
EXTENDS Integers, Sequences, FiniteSets, TLC

(* ------------------------------ bounds --------------------------------- *)

\* The cursor delivers at most this many volumes.
MaxVolumes == 2
\* The host has at most this many mount paths in all.
MaxPaths == 2
\* Failed FindNextVolume calls whose warning is recorded; later ones are
\* made as well, but add nothing to the recorded list (the code's list
\* grows without bound).
MaxAdvErr == 1

(* --------------------------- program constants ------------------------- *)

fileFileCompression == 16
fileReadOnlyVolume == 524288

\* GetDriveType results (windows.DRIVE_*).
DRIVE_UNKNOWN == "DRIVE_UNKNOWN"
DRIVE_NO_ROOT_DIR == "DRIVE_NO_ROOT_DIR"
DRIVE_REMOVABLE == "DRIVE_REMOVABLE"
DRIVE_FIXED == "DRIVE_FIXED"
DRIVE_REMOTE == "DRIVE_REMOTE"
DRIVE_CDROM == "DRIVE_CDROM"
DriveTypes ==
    {DRIVE_UNKNOWN, DRIVE_NO_ROOT_DIR, DRIVE_REMOVABLE, DRIVE_FIXED,
     DRIVE_REMOTE, DRIVE_CDROM}

\* Values GetVolumeInformation may store in fsFlags: a read-write volume
\* with other bits set (case-sensitive search, case-preserved names), and a
\* compressed read-only volume.
FsFlagsSet == {3, 524288 + 16}
FsNames == {"NTFS"}
CtxErrs == {"context canceled", "context deadline exceeded"}

VARIABLES
    ppc,            \* producer: position in getPartitions
    cpc,            \* consumer: "loop" or "returned"
    ctx,            \* "active", or the error ctx.Err() reports once done
    nextVolHandle,  \* "none", "invalid", "open", "closed"
    closeCalls,     \* FindVolumeClose calls made
    calls,          \* names of the native calls made so far
    nextRes,        \* what the last FindNextVolume call returned
    advErrs,        \* failed FindNextVolume calls, counted up to MaxAdvErr
    volumes,        \* log: what the native calls returned, volume by volume
    volPaths,       \* getPartitions: volPaths
    driveType,      \* getPartitions: driveType
    pathIdx,        \* getPartitions: index of the range loop over volPaths
    pending,        \* the PartitionStat offered in the select at line 182
    generated,      \* every PartitionStat the producer has built, in order
    warnings,       \* warnings.List
    errFirstVol,    \* "nil" or the first-volume error
    retChanClosed,
    quitCloses,     \* close(quitChan) calls made
    ret,            \* consumer: ret
    result,         \* what PartitionsWithContext returned
    branch,         \* the select case the consumer returned through
    earlyCancel,    \* ctx was done before any getVolumePaths call was made
    io,             \* IOCountersWithContext: its locals, what the host
                    \* answered and what it returned
    fs              \* the GetVolumeInformation output a record is built from

vars ==
    <<ppc, cpc, ctx, nextVolHandle, closeCalls, calls, nextRes, advErrs,
      volumes, volPaths, driveType, pathIdx, pending, generated, warnings,
      errFirstVol, retChanClosed, quitCloses, ret, result, branch,
      earlyCancel, io, fs>>

(* ------------------------- pure functions ------------------------------ *)

\* split0, lines 233-250.  s16 is indexed from 1 here and from 0 in the
\* code: `to` and `from` keep the code's 0-based values.
RECURSIVE split0Loop(_, _, _, _, _)
split0Loop(s16, end, to, from, ss) ==
    IF to >= end THEN ss
    ELSE IF s16[to + 1] = 0
         THEN split0Loop(s16, end, to + 1, to + 1,
                         IF from < to /\ s16[from + 1] # 0
                         THEN Append(ss, SubSeq(s16, from + 1, to))
                         ELSE ss)
         ELSE split0Loop(s16, end, to + 1, from, ss)

split0(s16, end) ==
    split0Loop(s16, IF end > Len(s16) THEN Len(s16) ELSE end, 0, 0, <<>>)

\* strings.TrimRight(volPath, "\\"), line 180: drops every trailing c.
RECURSIVE TrimRight(_, _)
TrimRight(s, c) ==
    IF Len(s) > 0 /\ s[Len(s)] = c
    THEN TrimRight(SubSeq(s, 1, Len(s) - 1), c)
    ELSE s

\* int64(fsFlags)&bit != 0, for a mask of one bit (lines 173, 176).
HasFlag(fsFlags, bit) == (fsFlags \div bit) % 2 = 1

\* Variant of Opts: the compression flag is not looked at.
OptsNoCompress(fsFlags) ==
    IF HasFlag(fsFlags, fileReadOnlyVolume) THEN <<"ro">> ELSE <<"rw">>

\* Lines 172-178.
Opts(fsFlags) ==
    LET opts == IF HasFlag(fsFlags, fileReadOnlyVolume)
                THEN <<"ro">> ELSE <<"rw">>
    IN  IF HasFlag(fsFlags, fileFileCompression)
        THEN Append(opts, "compress") ELSE opts

\* The PartitionStat built at lines 180-188.
PartitionStat(volPath, fsName, fsFlags) ==
    LET path == TrimRight(volPath, 92)
    IN  [Mountpoint |-> path, Device |-> path, Fstype |-> fsName,
         Opts |-> Opts(fsFlags)]

NoPartition ==
    [Mountpoint |-> <<>>, Device |-> <<>>, Fstype |-> "", Opts |-> <<>>]

\* Variant of Inspects: DRIVE_REMOTE is left out of the condition.
InspectsNoRemote(t) == t \in {DRIVE_REMOVABLE, DRIVE_FIXED, DRIVE_CDROM}

\* Line 150: the drive types whose mount paths are inspected.
Inspects(t) ==
    t \in {DRIVE_REMOVABLE, DRIVE_FIXED, DRIVE_REMOTE, DRIVE_CDROM}

\* Variant of IsUnknown: the DRIVE_UNKNOWN branch is never taken.
IsUnknownNever(t) == FALSE

\* Line 144.
IsUnknown(t) == t = DRIVE_UNKNOWN

\* Variant of SilentOnInfoFailure: only DRIVE_CDROM is skipped silently.
SilentOnInfoFailureCdromOnly(t) == t = DRIVE_CDROM

\* Line 166: a failed GetVolumeInformation adds no warning for these.
SilentOnInfoFailure(t) == t = DRIVE_CDROM \/ t = DRIVE_REMOVABLE

(* ------------------------------ warnings ------------------------------- *)

\* One entry of warnings.List.  The error value is kept as the place that
\* added it (kind) and the volume and mount path it was added for.
Warning(kind, vol, path) == [kind |-> kind, vol |-> vol, path |-> path]

\* Warnings.Add.
WarningsAdd(w, e) == Append(w, e)

(* ------------------------------ native side ---------------------------- *)

\* The mount paths of the k-th volume the cursor delivers, as UTF-16 code
\* units: "C:\", "C:\b\", "C:\c\" for the first volume, "D:\"... for the
\* second.
MountPath(k, i) ==
    IF i = 1 THEN <<66 + k, 58, 92>> ELSE <<66 + k, 58, 92, 96 + i, 92>>

\* What GetVolumePathNamesForVolumeName writes for n mount paths: each
\* path followed by a null, and a final null.
RECURSIVE VolumePathsBuf(_, _)
VolumePathsBuf(k, n) ==
    IF n = 0 THEN <<0>>
    ELSE SubSeq(VolumePathsBuf(k, n - 1), 1, Len(VolumePathsBuf(k, n - 1)) - 1)
         \o MountPath(k, n) \o <<0, 0>>

\* What GetVolumeInformation returned for one mount path.
InfoFailed == [ok |-> FALSE, fsFlags |-> 0, fsName |-> ""]
InfoOk(fsFlags, fsName) == [ok |-> TRUE, fsFlags |-> fsFlags, fsName |-> fsName]
InfoResults ==
    {InfoFailed} \cup {InfoOk(f, n) : f \in FsFlagsSet, n \in FsNames}

\* A volume as the cursor delivers it; the later calls fill it in.
NewVolume ==
    [pathsErr |-> FALSE, paths |-> <<>>, driveType |-> "none", info |-> <<>>]

RECURSIVE PathsUsed(_)
PathsUsed(vs) ==
    IF vs = <<>> THEN 0 ELSE Len(vs[Len(vs)].paths) + PathsUsed(SubSeq(vs, 1, Len(vs) - 1))

SetLast(vs, v) == [vs EXCEPT ![Len(vs)] = v]
Last(vs) == vs[Len(vs)]

(* ------------------------------- results ------------------------------- *)

NoResult ==
    [records |-> <<>>, kind |-> "none", ctxErr |-> "", warnings |-> <<>>]

\* Line 206: return ret, errFirstVol.
FirstVolResult(r) ==
    [records |-> r, kind |-> "first_volume", ctxErr |-> "", warnings |-> <<>>]

\* Line 208: return ret, warnings.Reference().
WarningsResult(r, w) ==
    [records |-> r, kind |-> "warnings", ctxErr |-> "", warnings |-> w]

\* Variant of CtxDoneResult: return ret, warnings.Reference().
CtxDoneResultWarnings(r, c, w) == WarningsResult(r, w)

\* Variant of CtxDoneResult: return ret, errFirstVol.
CtxDoneResultFirstVol(r, c, w) == FirstVolResult(r)

\* Variant of CtxDoneResult: return nil, ctx.Err().
CtxDoneResultNoRecords(r, c, w) ==
    [records |-> <<>>, kind |-> "ctx", ctxErr |-> c, warnings |-> <<>>]

\* Line 212: return ret, ctx.Err().
CtxDoneResult(r, c, w) ==
    [records |-> r, kind |-> "ctx", ctxErr |-> c, warnings |-> <<>>]

\* Variant of ClosedResult: errFirstVol is not looked at.
ClosedResultWarningsFirst(r, e, w) == WarningsResult(r, w)

\* Lines 205-208.
ClosedResult(r, e, w) ==
    IF e # "nil" THEN FirstVolResult(r) ELSE WarningsResult(r, w)

\* Variant of Receive: the record is put in front.
ReceivePrepend(r, p) == <<p>> \o r

\* Line 210: ret = append(ret, p).
Receive(r, p) == Append(r, p)

(* -------------------------------- Init --------------------------------- *)

\* PartitionsWithContext when the consumer loop is entered (line 200), the
\* producer just started (line 198).  The context may be done already.
PartitionsInit ==
    /\ ppc = "first"
    /\ cpc = "loop"
    /\ ctx \in {"active"} \cup CtxErrs
    /\ nextVolHandle = "none"
    /\ closeCalls = 0
    /\ calls = {}
    /\ nextRes = "none"
    /\ advErrs = 0
    /\ volumes = <<>>
    /\ volPaths = <<>>
    /\ driveType = "none"
    /\ pathIdx = 0
    /\ pending = NoPartition
    /\ generated = <<>>
    /\ warnings = <<>>
    /\ errFirstVol = "nil"
    /\ retChanClosed = FALSE
    /\ quitCloses = 0
    /\ ret = <<>>
    /\ result = NoResult
    /\ branch = "none"
    /\ earlyCancel = (ctx # "active")

\* IOCountersWithContext not called.
IoIdle ==
    [pc |-> "idle", lpBuffer |-> <<>>, i |-> 0, path |-> <<>>, drives |-> <<>>,
     drivemap |-> <<>>, err |-> "nil", opened |-> 0, closed |-> 0]

\* No GetVolumeInformation output under study.
FsIdle == [pc |-> "idle", other |-> {}, compress |-> FALSE, readOnly |-> FALSE]

\* A call of PartitionsWithContext.
Init ==
    /\ PartitionsInit
    /\ io = IoIdle
    /\ fs = FsIdle


(* ------------------------------ producer ------------------------------- *)

\* Variant of AfterFirstFails: FindVolumeClose is deferred before the
\* handle is tested.
AfterFirstFailsClosing == "close_handle"

\* Lines 111-114: where a failed FindFirstVolume leaves; only
\* close(retChan) is deferred.
AfterFirstFails == "close_chan"

\* Lines 108-116.
ProducerFindFirstVolume ==
    /\ ppc = "first"
    /\ calls' = calls \cup {"FindFirstVolume"}
    /\ \/ /\ nextVolHandle' = "invalid"
          /\ errFirstVol' = "failed to get first-volume"
          /\ ppc' = AfterFirstFails
          /\ UNCHANGED volumes
       \/ /\ nextVolHandle' = "open"
          /\ volumes' = Append(volumes, NewVolume)
          /\ ppc' = "paths"
          /\ UNCHANGED errFirstVol
    /\ UNCHANGED <<cpc, ctx, closeCalls, nextRes, advErrs, volPaths, driveType,
                   pathIdx, pending, generated, warnings, retChanClosed,
                   quitCloses, ret, result, branch,
                   earlyCancel, io, fs>>

\* Lines 120-125: the call.  The cursor delivers a volume, reports that
\* there are no more (ERROR_NO_MORE_FILES), or fails with another error.
ProducerFindNextVolume ==
    /\ ppc = "next"
    /\ calls' = calls \cup {"FindNextVolume"}
    /\ \/ /\ Len(volumes) < MaxVolumes
          /\ nextRes' = "ok"
          /\ volumes' = Append(volumes, NewVolume)
       \/ /\ nextRes' \in {"no_more_files", "error"}
          /\ UNCHANGED volumes
    /\ ppc' = "next_ret"
    /\ UNCHANGED <<cpc, ctx, nextVolHandle, closeCalls, advErrs, volPaths,
                   driveType, pathIdx, pending, generated, warnings,
                   errFirstVol, retChanClosed, quitCloses, ret, result, branch,
                   earlyCancel, io, fs>>

\* Where the loop goes after a FindNextVolume error other than
\* ERROR_NO_MORE_FILES: `continue`, line 131.
AfterNextError == "next"

\* Lines 125-135: what the loop does with the call's result.
ProducerNextRet ==
    /\ ppc = "next_ret"
    /\ nextRes' = "none"
    /\ \/ /\ nextRes = "ok"
          /\ ppc' = "paths"
          /\ UNCHANGED <<warnings, advErrs>>
       \/ /\ nextRes = "no_more_files"
          /\ ppc' = "close_handle"
          /\ UNCHANGED <<warnings, advErrs>>
       \/ /\ nextRes = "error"
          /\ warnings' = IF advErrs < MaxAdvErr
                         THEN WarningsAdd(warnings, Warning("next_volume", 0, 0))
                         ELSE warnings
          /\ advErrs' = IF advErrs < MaxAdvErr THEN advErrs + 1 ELSE advErrs
          /\ ppc' = AfterNextError
    /\ UNCHANGED <<cpc, ctx, nextVolHandle, closeCalls, calls, volumes,
                   volPaths, driveType, pathIdx, pending, generated,
                   errFirstVol, retChanClosed, quitCloses, ret, result, branch,
                   earlyCancel, io, fs>>

\* Variant of AfterPathsError: a failed getVolumePaths ends the walk.
AfterPathsErrorStops == "close_handle"

\* Where the loop goes after getVolumePaths failed: `continue`, line 138.
AfterPathsError == "next"

\* Lines 136-141 with getVolumePaths, lines 218-229.
ProducerGetVolumePaths ==
    /\ ppc = "paths"
    /\ calls' = calls \cup {"GetVolumePathNamesForVolumeName"}
    /\ \/ /\ volPaths' = <<>>
          /\ volumes' = SetLast(volumes, [Last(volumes) EXCEPT !.pathsErr = TRUE])
          /\ warnings' = WarningsAdd(warnings,
                                     Warning("volume_paths", Len(volumes), 0))
          /\ ppc' = AfterPathsError
       \/ \E n \in 0..(MaxPaths - PathsUsed(volumes)) :
             LET buf == VolumePathsBuf(Len(volumes), n)
                 ps == split0(buf, Len(buf))
             IN  /\ volPaths' = ps
                 /\ volumes' = SetLast(volumes, [Last(volumes) EXCEPT !.paths = ps])
                 /\ ppc' = IF Len(ps) > 0 THEN "type" ELSE "next"
                 /\ UNCHANGED warnings
    /\ UNCHANGED <<cpc, ctx, nextVolHandle, closeCalls, nextRes, advErrs,
                   driveType, pathIdx, pending, generated, errFirstVol,
                   retChanClosed, quitCloses, ret, result, branch,
                   earlyCancel, io, fs>>

\* Lines 142-150: GetDriveType on the first mount path.  For a type line
\* 150 does not list, the range loop does nothing.
ProducerGetDriveType ==
    /\ ppc = "type"
    /\ calls' = calls \cup {"GetDriveType"}
    /\ \E t \in DriveTypes :
          /\ driveType' = t
          /\ volumes' = SetLast(volumes, [Last(volumes) EXCEPT !.driveType = t])
          /\ IF IsUnknown(t)
             THEN /\ warnings' = WarningsAdd(warnings,
                                   Warning("drive_unknown", Len(volumes), 0))
                  /\ ppc' = "next"
                  /\ UNCHANGED pathIdx
             ELSE /\ UNCHANGED warnings
                  /\ IF Inspects(t)
                     THEN ppc' = "inspect" /\ pathIdx' = 1
                     ELSE ppc' = "next" /\ UNCHANGED pathIdx
    /\ UNCHANGED <<cpc, ctx, nextVolHandle, closeCalls, nextRes, advErrs,
                   volPaths, pending, generated, errFirstVol, retChanClosed,
                   quitCloses, ret, result, branch,
                   earlyCancel, io, fs>>

\* Variant of NextPath: after one mount path the volume is left.
NextPathSkipsRest == ppc' = "next" /\ UNCHANGED pathIdx

\* The range loop of line 149 moves to the next mount path, or the outer
\* loop to the next volume.
NextPath ==
    IF pathIdx < Len(volPaths)
    THEN ppc' = "inspect" /\ pathIdx' = pathIdx + 1
    ELSE ppc' = "next" /\ UNCHANGED pathIdx

\* Lines 151-188: GetVolumeInformation on one mount path.
ProducerGetVolumeInformation ==
    /\ ppc = "inspect"
    /\ calls' = calls \cup {"GetVolumeInformation"}
    /\ \E info \in InfoResults :
          /\ volumes' = SetLast(volumes,
                 [Last(volumes) EXCEPT !.info = Append(@, info)])
          /\ IF ~info.ok
             THEN /\ warnings' =
                        IF SilentOnInfoFailure(driveType) THEN warnings
                        ELSE WarningsAdd(warnings,
                               Warning("volume_information", Len(volumes), pathIdx))
                  /\ NextPath
                  /\ UNCHANGED <<pending, generated>>
             ELSE LET p == PartitionStat(volPaths[pathIdx], info.fsName,
                                         info.fsFlags)
                  IN  /\ pending' = p
                      /\ generated' = Append(generated, p)
                      /\ ppc' = "send"
                      /\ UNCHANGED <<warnings, pathIdx>>
    /\ UNCHANGED <<cpc, ctx, nextVolHandle, closeCalls, nextRes, advErrs,
                   volPaths, driveType, errFirstVol, retChanClosed,
                   quitCloses, ret, result, branch,
                   earlyCancel, io, fs>>

\* Lines 183-188 and 203-210: retChan is unbuffered, so the producer's send
\* and the consumer's receive are one step.
SendReceive ==
    /\ ppc = "send"
    /\ cpc = "loop"
    /\ ret' = Receive(ret, pending)
    /\ pending' = NoPartition
    /\ NextPath
    /\ UNCHANGED <<cpc, ctx, nextVolHandle, closeCalls, calls, nextRes,
                   advErrs, volumes, volPaths, driveType, generated, warnings,
                   errFirstVol, retChanClosed, quitCloses, result, branch,
                   earlyCancel, io, fs>>

\* Variant of AfterQuit: the handle is not closed on this path.
AfterQuitNoClose == "close_chan"

\* Where `return` at line 190 leaves: both deferred calls are still to run.
AfterQuit == "close_handle"

\* Variant of QuitReady: the quitChan case is never ready.
QuitReadyNever(q) == FALSE

\* Line 189: a receive from quitChan is ready once the channel is closed.
QuitReady(q) == q > 0

\* Lines 189-190: quitChan is closed.
ProducerQuit ==
    /\ ppc = "send"
    /\ QuitReady(quitCloses)
    /\ pending' = NoPartition
    /\ ppc' = AfterQuit
    /\ UNCHANGED <<cpc, ctx, nextVolHandle, closeCalls, calls, nextRes,
                   advErrs, volumes, volPaths, driveType, pathIdx, generated,
                   warnings, errFirstVol, retChanClosed, quitCloses, ret,
                   result, branch,
                   earlyCancel, io, fs>>

\* Line 115, deferred: FindVolumeClose.
ProducerFindVolumeClose ==
    /\ ppc = "close_handle"
    /\ calls' = calls \cup {"FindVolumeClose"}
    /\ nextVolHandle' = "closed"
    /\ closeCalls' = closeCalls + 1
    /\ ppc' = "close_chan"
    /\ UNCHANGED <<cpc, ctx, nextRes, advErrs, volumes, volPaths, driveType,
                   pathIdx, pending, generated, warnings, errFirstVol,
                   retChanClosed, quitCloses, ret, result, branch,
                   earlyCancel, io, fs>>

\* Line 104, deferred: close(retChan); the goroutine ends.
ProducerCloseRetChan ==
    /\ ppc = "close_chan"
    /\ retChanClosed' = TRUE
    /\ ppc' = "done"
    /\ UNCHANGED <<cpc, ctx, nextVolHandle, closeCalls, calls, nextRes,
                   advErrs, volumes, volPaths, driveType, pathIdx, pending,
                   generated, warnings, errFirstVol, quitCloses, ret, result, branch,
                   earlyCancel, io, fs>>

Producer ==
    \/ ProducerFindFirstVolume
    \/ ProducerFindNextVolume
    \/ ProducerNextRet
    \/ ProducerGetVolumePaths
    \/ ProducerGetDriveType
    \/ ProducerGetVolumeInformation
    \/ SendReceive
    \/ ProducerQuit
    \/ ProducerFindVolumeClose
    \/ ProducerCloseRetChan

(* ------------------------------ consumer ------------------------------- *)

\* Variant of CloseQuitChan: the consumer returns without closing quitChan.
CloseQuitChanForgotten(q) == q

\* Line 101, deferred: close(quitChan).
CloseQuitChan(q) == q + 1

\* Lines 203-209: the receive finds retChan closed.  Line 101, deferred:
\* close(quitChan).
ConsumerClosed ==
    /\ cpc = "loop"
    /\ retChanClosed
    /\ result' = ClosedResult(ret, errFirstVol, warnings)
    /\ branch' = "closed"
    /\ cpc' = "returned"
    /\ quitCloses' = CloseQuitChan(quitCloses)
    /\ UNCHANGED <<ppc, ctx, nextVolHandle, closeCalls, calls, nextRes,
                   advErrs, volumes, volPaths, driveType, pathIdx, pending,
                   generated, warnings, errFirstVol, retChanClosed, ret,
                   earlyCancel, io, fs>>

\* Lines 211-212: ctx.Done() is closed.  Line 101, deferred:
\* close(quitChan).
ConsumerCtxDone ==
    /\ cpc = "loop"
    /\ ctx # "active"
    /\ result' = CtxDoneResult(ret, ctx, warnings)
    /\ branch' = "ctx"
    /\ cpc' = "returned"
    /\ quitCloses' = CloseQuitChan(quitCloses)
    /\ UNCHANGED <<ppc, ctx, nextVolHandle, closeCalls, calls, nextRes,
                   advErrs, volumes, volPaths, driveType, pathIdx, pending,
                   generated, warnings, errFirstVol, retChanClosed, ret,
                   earlyCancel, io, fs>>

Consumer == ConsumerClosed \/ ConsumerCtxDone

\* The caller cancels the context, or its deadline passes.  Once
\* PartitionsWithContext has returned no code looks at the context.
CtxCancel ==
    /\ ctx = "active"
    /\ cpc = "loop"
    /\ ctx' \in CtxErrs
    /\ earlyCancel' = ("GetVolumePathNamesForVolumeName" \notin calls)
    /\ UNCHANGED <<ppc, cpc, nextVolHandle, closeCalls, calls, nextRes,
                   advErrs, volumes, volPaths, driveType, pathIdx, pending,
                   generated, warnings, errFirstVol, retChanClosed,
                   quitCloses, ret, result, branch, io, fs>>

Next ==
    \/ ProducerFindFirstVolume
    \/ ProducerFindNextVolume
    \/ ProducerNextRet
    \/ ProducerGetVolumePaths
    \/ ProducerGetDriveType
    \/ ProducerGetVolumeInformation
    \/ SendReceive
    \/ ProducerQuit
    \/ ProducerFindVolumeClose
    \/ ProducerCloseRetChan
    \/ ConsumerClosed
    \/ ConsumerCtxDone
    \/ CtxCancel

Spec == Init /\ [][Next]_vars

\* The Go scheduler runs both goroutines: a producer step that stays
\* possible is taken, and so is a consumer select with a ready case.  No
\* fairness is assumed of the caller (CtxCancel) or of what a native call
\* returns.
FairSpec == Spec /\ WF_vars(Producer) /\ WF_vars(Consumer)

(* ------------------------ IOCountersWithContext ------------------------ *)

\* The host has at most this many logical drives.
MaxDrives == 3

\* Values DeviceIoControl may store in diskPerformance.ReadTime and
\* .WriteTime (int64, 100ns units): one second, and a value that is not a
\* whole number of milliseconds.
RawTicks == {10000000, 15999999}

\* Lines 294-295: uint64(t / 10000 / 1000).  Go's integer division
\* truncates; the counters are not negative, so the conversion to uint64
\* keeps the value.
StoredTime(t) == (t \div 10000) \div 1000

\* Lines 289-297.  The byte and operation counts are copied as they are and
\* are left out.
IOCountersStat(path, readTime, writeTime) ==
    [ReadTime |-> StoredTime(readTime), WriteTime |-> StoredTime(writeTime),
     Name |-> path]

\* What GetLogicalDriveStrings writes for n drives: "C:\", "D:\", ... each
\* followed by a null; its return value is the length written.
RECURSIVE LogicalDriveStrings(_)
LogicalDriveStrings(n) ==
    IF n = 0 THEN <<>>
    ELSE LogicalDriveStrings(n - 1) \o <<66 + n, 58, 92, 0>>

\* One logical drive as the loop meets it; the later calls fill it in.
NewDrive(path, t) ==
    [path |-> path, type |-> t, open |-> "none", ioctl |-> "none",
     ReadTime |-> 0, WriteTime |-> 0]

\* What CreateFile may return.
OpenResults == {"ok", "ERROR_FILE_NOT_FOUND", "ERROR_ACCESS_DENIED"}

\* Variant of SkipsOpenError: every CreateFile error is returned.
SkipsOpenErrorNever(e) == FALSE

\* Line 277: the CreateFile error after which the loop continues.
SkipsOpenError(e) == e = "ERROR_FILE_NOT_FOUND"

\* PartitionsWithContext's state, which IOCountersWithContext leaves alone.
partitionVars ==
    <<ppc, cpc, ctx, nextVolHandle, closeCalls, calls, nextRes, advErrs,
      volumes, volPaths, driveType, pathIdx, pending, generated, warnings,
      errFirstVol, retChanClosed, quitCloses, ret, result, branch,
      earlyCancel>>

\* Lines 257-261.
IoGetLogicalDriveStrings ==
    /\ io.pc = "start"
    /\ \/ io' = [io EXCEPT !.pc = "return", !.err = "GetLogicalDriveStrings"]
       \/ \E n \in 0..MaxDrives :
             io' = [io EXCEPT !.pc = "range", !.lpBuffer = LogicalDriveStrings(n),
                              !.i = 0]
    /\ UNCHANGED <<partitionVars, fs>>

\* Lines 262-264 and 300: the range loop takes the next code unit; only
\* 'A'..'Z' start an iteration body.
IoRange ==
    /\ io.pc = "range"
    /\ IF io.i >= Len(io.lpBuffer)
       THEN io' = [io EXCEPT !.pc = "return", !.err = "nil"]
       ELSE LET v == io.lpBuffer[io.i + 1]
            IN  IF 65 <= v /\ v <= 90
                THEN io' = [io EXCEPT !.i = @ + 1, !.path = <<v, 58>>,
                                      !.pc = "type"]
                ELSE io' = [io EXCEPT !.i = @ + 1]
    /\ UNCHANGED <<partitionVars, fs>>

\* Lines 265-272.  typeret == 0 is DRIVE_UNKNOWN; GetDriveType sets no last
\* error, so windows.GetLastError() returns whatever an earlier call left:
\* an error, or nil.
IoGetDriveType ==
    /\ io.pc = "type"
    /\ \E t \in DriveTypes :
          LET ds == Append(io.drives, NewDrive(io.path, t))
          IN  IF t = DRIVE_UNKNOWN
              THEN \E e \in {"nil", "GetLastError"} :
                      io' = [io EXCEPT !.drives = ds, !.pc = "return", !.err = e]
              ELSE io' = [io EXCEPT !.drives = ds,
                                    !.pc = IF t = DRIVE_FIXED THEN "open"
                                           ELSE "range"]
    /\ UNCHANGED <<partitionVars, fs>>

\* Lines 273-282.
IoCreateFile ==
    /\ io.pc = "open"
    /\ \E o \in OpenResults :
          LET ds == SetLast(io.drives, [Last(io.drives) EXCEPT !.open = o])
          IN  IF o = "ok"
              THEN io' = [io EXCEPT !.drives = ds, !.opened = @ + 1,
                                    !.pc = "ioctl"]
              ELSE IF SkipsOpenError(o)
                   THEN io' = [io EXCEPT !.drives = ds, !.pc = "range"]
                   ELSE io' = [io EXCEPT !.drives = ds, !.pc = "return",
                                         !.err = o]
    /\ UNCHANGED <<partitionVars, fs>>

\* Lines 284-297.
IoDeviceIoControl ==
    /\ io.pc = "ioctl"
    /\ \/ io' = [io EXCEPT
                   !.drives = SetLast(io.drives,
                                  [Last(io.drives) EXCEPT !.ioctl = "error"]),
                   !.pc = "return", !.err = "DeviceIoControl"]
       \/ \E rt \in RawTicks, wt \in RawTicks :
             io' = [io EXCEPT
                      !.drives = SetLast(io.drives,
                                     [Last(io.drives) EXCEPT !.ioctl = "ok",
                                          !.ReadTime = rt, !.WriteTime = wt]),
                      !.drivemap = (io.path :> IOCountersStat(io.path, rt, wt))
                                   @@ io.drivemap,
                      !.pc = "range"]
    /\ UNCHANGED <<partitionVars, fs>>

\* Line 282, deferred: CloseHandle for every handle opened; the function
\* returns drivemap and err.
IoReturn ==
    /\ io.pc = "return"
    /\ io' = [io EXCEPT !.closed = io.opened, !.pc = "returned"]
    /\ UNCHANGED <<partitionVars, fs>>

\* A call of IOCountersWithContext.
IOInit ==
    /\ PartitionsInit
    /\ ctx = "active"
    /\ io = [IoIdle EXCEPT !.pc = "start"]
    /\ fs = FsIdle

IONext ==
    \/ IoGetLogicalDriveStrings
    \/ IoRange
    \/ IoGetDriveType
    \/ IoCreateFile
    \/ IoDeviceIoControl
    \/ IoReturn

IOSpec == IOInit /\ [][IONext]_vars

(* ------------------- the record of one mount path --------------------- *)

\* File-system flag bits other than the two the code tests:
\* FILE_CASE_SENSITIVE_SEARCH, FILE_CASE_PRESERVED_NAMES,
\* FILE_UNICODE_ON_DISK, FILE_VOLUME_IS_COMPRESSED and
\* FILE_SEQUENTIAL_WRITE_ONCE.
OtherFlagBits == {1, 2, 4, 32768, 1048576}

RECURSIVE SumOf(_)
SumOf(S) ==
    IF S = {} THEN 0
    ELSE LET x == CHOOSE y \in S : TRUE IN x + SumOf(S \ {x})

\* The value GetVolumeInformation stores in fsFlags for the bits of f.
FsFlagsValue(f) ==
    SumOf(f.other)
    + (IF f.compress THEN fileFileCompression ELSE 0)
    + (IF f.readOnly THEN fileReadOnlyVolume ELSE 0)

\* Lines 172-188 for one successful GetVolumeInformation call.
BuildRecord ==
    /\ fs.pc = "flags"
    /\ pending' = PartitionStat(MountPath(1, 1), "NTFS", FsFlagsValue(fs))
    /\ fs' = [fs EXCEPT !.pc = "built"]
    /\ UNCHANGED <<ppc, cpc, ctx, nextVolHandle, closeCalls, calls, nextRes,
                   advErrs, volumes, volPaths, driveType, pathIdx, generated,
                   warnings, errFirstVol, retChanClosed, quitCloses, ret,
                   result, branch, earlyCancel, io>>

\* GetVolumeInformation has returned any combination of flag bits.
OptsInit ==
    /\ PartitionsInit
    /\ ctx = "active"
    /\ io = IoIdle
    /\ fs \in [pc : {"flags"}, other : SUBSET OtherFlagBits,
               compress : BOOLEAN, readOnly : BOOLEAN]

OptsNext == BuildRecord

OptsSpec == OptsInit /\ [][OptsNext]_vars

(* ------------------------- what the claims use ------------------------- *)

IsPrefix(a, b) == Len(a) <= Len(b) /\ a = SubSeq(b, 1, Len(a))

ProducerExiting == ppc \in {"close_handle", "close_chan", "done"}

FourTypes == {DRIVE_REMOVABLE, DRIVE_FIXED, DRIVE_REMOTE, DRIVE_CDROM}

\* The records of the mount paths of logged volume v, from path i on,
\* whose GetVolumeInformation call succeeded.
RECURSIVE VolumeRecords(_, _)
VolumeRecords(v, i) ==
    IF i > Len(v.info) THEN <<>>
    ELSE (IF v.info[i].ok
          THEN <<PartitionStat(v.paths[i], v.info[i].fsName, v.info[i].fsFlags)>>
          ELSE <<>>) \o VolumeRecords(v, i + 1)

\* One record per (volume, mount path) of the log whose drive type is one
\* of the four and whose lookup succeeded, in the cursor's order.
RECURSIVE ExpectedRecords(_)
ExpectedRecords(vs) ==
    IF vs = <<>> THEN <<>>
    ELSE ExpectedRecords(SubSeq(vs, 1, Len(vs) - 1))
         \o (IF Last(vs).driveType \in FourTypes
             THEN VolumeRecords(Last(vs), 1) ELSE <<>>)

\* The mount points the records of logged volume v would carry.
VolumeMountpoints(v) == {TrimRight(v.paths[i], 92) : i \in 1..Len(v.paths)}

WarningsFor(k, i) ==
    {j \in 1..Len(warnings) : warnings[j].vol = k /\ warnings[j].path = i}

WarningsOfVolume(k) == {j \in 1..Len(warnings) : warnings[j].vol = k}

WarningsOfKind(kind) == {j \in 1..Len(warnings) : warnings[j].kind = kind}

RecordsOf(recs, mountpoints) ==
    {j \in 1..Len(recs) : recs[j].Mountpoint \in mountpoints}

(* -------------------------------- claims ------------------------------- *)

\* C1: a consumer that left through the ctx.Done() case returned the
\* records it had received so far with ctx.Err(), neither the first-volume
\* error nor the warnings; and the case can be taken whenever the context
\* is done, wherever the producer is.
C1_CtxDoneReturnsReceivedAndCtxErr ==
    /\ branch = "ctx" =>
          /\ cpc = "returned"
          /\ result.records = ret
          /\ result.kind = "ctx"
          /\ result.ctxErr = ctx
          /\ result.ctxErr \in CtxErrs
          /\ result.warnings = <<>>
    /\ (cpc = "loop" /\ ctx # "active") => ENABLED ConsumerCtxDone

C1_Witness ==
    /\ branch = "ctx"
    /\ ~ProducerExiting
    /\ Len(result.records) = 1
    /\ warnings # <<>>

\* C2: FindVolumeClose is called at most once, only after FindFirstVolume
\* succeeded; a producer past its deferred close after a successful open
\* has called it exactly once; FindNextVolume is called on an open handle
\* only.
C2_HandleClosedExactlyOnce ==
    /\ closeCalls <= 1
    /\ closeCalls = 1 =>
          /\ "FindFirstVolume" \in calls
          /\ errFirstVol = "nil"
          /\ nextVolHandle = "closed"
    /\ nextVolHandle = "invalid" => closeCalls = 0
    /\ (ppc \in {"close_chan", "done"} /\ errFirstVol = "nil") => closeCalls = 1
    /\ ppc \in {"next", "next_ret"} => nextVolHandle = "open"
    /\ "FindNextVolume" \in calls => nextVolHandle \in {"open", "closed"}

C2_Witness ==
    /\ ppc = "done"
    /\ branch = "ctx"
    /\ Len(generated) > Len(ret)
    /\ closeCalls = 1

\* C3: once the consumer has returned through ctx.Done() while the handle
\* is open, the producer eventually exits with the handle closed.
C3_CancelledProducerExits ==
    (branch = "ctx" /\ nextVolHandle = "open")
        ~> (ppc = "done" /\ nextVolHandle = "closed")

C5_AdvanceErrorEndsStream ==
    advErrs >= 1 =>
        /\ Cardinality(WarningsOfKind("next_volume")) = 1
        /\ ppc # "next_ret"
        /\ ProducerExiting
        /\ errFirstVol = "nil"
        /\ branch = "closed" =>
              /\ result.records = generated
              /\ result.kind = "warnings"
              /\ result.warnings[Len(result.warnings)].kind = "next_volume"

\* C6 as claimed: a volume classified DRIVE_UNKNOWN adds no record and no
\* warning.
C6_UnknownAddsNothing ==
    \A k \in 1..Len(volumes) :
        volumes[k].driveType = DRIVE_UNKNOWN =>
            /\ RecordsOf(generated, VolumeMountpoints(volumes[k])) = {}
            /\ WarningsOfVolume(k) = {}

\* C6, amended: a volume classified DRIVE_UNKNOWN adds no record, none of
\* its mount paths is looked up, and it adds exactly one entry to the
\* warnings (the GetLastError value).
C6_UnknownAddsOneWarning ==
    \A k \in 1..Len(volumes) :
        volumes[k].driveType = DRIVE_UNKNOWN =>
            /\ RecordsOf(generated, VolumeMountpoints(volumes[k])) = {}
            /\ volumes[k].info = <<>>
            /\ Cardinality(WarningsOfVolume(k)) = 1
            /\ \A j \in WarningsOfVolume(k) : warnings[j].kind = "drive_unknown"

C6_Witness ==
    /\ branch = "closed"
    /\ Len(volumes) = 2
    /\ Len(volumes[1].paths) = 2
    /\ volumes[1].driveType = DRIVE_UNKNOWN
    /\ Len(warnings) = 1

\* C7: a mount path whose GetVolumeInformation call failed has no record;
\* it has no warning when the drive type is Removable or CDROM and exactly
\* one when it is Fixed or Remote; and the loop goes on with the volume's
\* next mount path, or with the next volume after the last one.
C7_InfoFailure ==
    \A k \in 1..Len(volumes) : \A i \in 1..Len(volumes[k].info) :
        ~volumes[k].info[i].ok =>
            /\ RecordsOf(generated, {TrimRight(volumes[k].paths[i], 92)}) = {}
            /\ volumes[k].driveType \in {DRIVE_REMOVABLE, DRIVE_CDROM} =>
                  WarningsFor(k, i) = {}
            /\ volumes[k].driveType \in {DRIVE_FIXED, DRIVE_REMOTE} =>
                  /\ Cardinality(WarningsFor(k, i)) = 1
                  /\ \A j \in WarningsFor(k, i) :
                        warnings[j].kind = "volume_information"
            /\ (k = Len(volumes) /\ i = Len(volumes[k].info)) =>
                  IF i < Len(volumes[k].paths)
                  THEN ppc = "inspect" /\ pathIdx = i + 1
                  ELSE ppc \in {"next", "next_ret"} \/ ProducerExiting

C7_Witness ==
    /\ Len(volumes) = 1
    /\ volumes[1].driveType = DRIVE_REMOVABLE
    /\ Len(volumes[1].info) = 2
    /\ ~volumes[1].info[1].ok
    /\ volumes[1].info[2].ok
    /\ branch = "closed"
    /\ Len(result.records) = 1

\* C8: a run that ends through the closed channel without the first-volume
\* error returns exactly one record for each (volume, mount path) whose
\* drive type is Removable, Fixed, Remote or CDROM and whose lookup
\* succeeded, every such mount path having been looked up, and nothing
\* else.
C8_ExactlyThePassingPairs ==
    (branch = "closed" /\ errFirstVol = "nil") =>
        /\ result.kind = "warnings"
        /\ result.records = ExpectedRecords(volumes)
        /\ \A k \in 1..Len(volumes) :
              volumes[k].driveType \in FourTypes =>
                  Len(volumes[k].info) = Len(volumes[k].paths)
        /\ \A a, b \in 1..Len(result.records) :
              result.records[a].Mountpoint = result.records[b].Mountpoint
                  => a = b

C8_Witness ==
    /\ branch = "closed"
    /\ Len(volumes) = 2
    /\ volumes[1].driveType = DRIVE_REMOTE
    /\ volumes[2].driveType = DRIVE_CDROM
    /\ Len(result.records) = 2

\* C9: the consumer's list is a prefix of the records the producer has
\* built, which are the passing pairs in the cursor's order; at most one
\* built record is not yet received.
C9_ReceivedIsPrefixInOrder ==
    /\ IsPrefix(ret, generated)
    /\ generated = ExpectedRecords(volumes)
    /\ Len(generated) - Len(ret) <= 1
    /\ result.kind # "none" => IsPrefix(result.records, generated)

C9_Witness ==
    /\ Len(ret) = 2
    /\ Len(volumes) = 2
    /\ branch = "ctx"

\* C10: after FindFirstVolume failed the producer makes no other native
\* call, FindVolumeClose included, logs nothing, and only closes retChan;
\* a consumer leaving through the closed channel returns no record and the
\* first-volume error.
C10_OpenFailure ==
    errFirstVol # "nil" =>
        /\ calls = {"FindFirstVolume"}
        /\ closeCalls = 0
        /\ nextVolHandle = "invalid"
        /\ volumes = <<>> /\ generated = <<>> /\ warnings = <<>>
        /\ ppc \in {"close_chan", "done"}
        /\ retChanClosed <=> ppc = "done"
        /\ ppc = "close_chan" => ENABLED ProducerCloseRetChan
        /\ branch = "closed" => result = FirstVolResult(<<>>)

C10_Witness ==
    /\ errFirstVol # "nil"
    /\ branch = "closed"

\* A logged volume the producer is through with: its mount paths were
\* asked for and, for the four inspected types, each was looked up.
Resolved(v) ==
    \/ v.pathsErr
    \/ v.paths = <<>>
    \/ /\ v.driveType # "none"
       /\ v.driveType \in FourTypes => Len(v.info) = Len(v.paths)

C11_State ==
    /\ errFirstVol # "nil" <=> nextVolHandle = "invalid"
    /\ \A k \in 1..Len(volumes) :
          (volumes[k].pathsErr \/ \E i \in 1..Len(volumes[k].info) :
                                      ~volumes[k].info[i].ok) =>
              /\ errFirstVol = "nil"
              /\ WarningsOfVolume(k) # {} \/ SilentOnInfoFailure(volumes[k].driveType)
              /\ \A k2 \in (k + 1)..(Len(volumes) - 1) : Resolved(volumes[k2])
    /\ generated = ExpectedRecords(volumes)

C11_Step ==
    /\ (ppc = "paths" /\ Last(volumes').pathsErr) =>
          /\ ppc' = "next"
          /\ Len(warnings') = Len(warnings) + 1
          /\ errFirstVol' = "nil"
    /\ (ppc = "inspect" /\ ppc' # ppc /\ ~Last(Last(volumes').info).ok) =>
          /\ ppc' = "next"
          /\ pathIdx = Len(volPaths)
          /\ errFirstVol' = "nil"
    /\ (ppc = "inspect" /\ ppc' = ppc /\ Last(volumes') # Last(volumes)) =>
          /\ ~Last(Last(volumes').info).ok
          /\ pathIdx' = pathIdx + 1
          /\ pathIdx' <= Len(volPaths)
    /\ (ppc = "next" /\ ppc' # ppc) => ppc' = "next_ret"
    /\ errFirstVol' # errFirstVol => ppc = "first"

\* C11: a failed getVolumePaths or GetVolumeInformation call leaves the
\* first-volume error unset and sends the loop on to the volume's next
\* mount path or to the next FindNextVolume call; every volume delivered
\* before the last one stays resolved and every passing mount path is
\* built into a record; the first-volume error is set only by the failed
\* FindFirstVolume call.
C11_PerItemFailureContinues == [](C11_State) /\ [][C11_Step]_vars

C11_Witness ==
    /\ branch = "closed"
    /\ Len(volumes) = 2
    /\ volumes[1].pathsErr
    /\ volumes[2].driveType = DRIVE_FIXED
    /\ Len(volumes[2].info) = 2
    /\ ~volumes[2].info[1].ok
    /\ volumes[2].info[2].ok
    /\ result.kind = "warnings"
    /\ Len(result.records) = 1
    /\ Len(result.warnings) = 2

\* The paths of the logged drives that were classified Fixed, were opened
\* and answered DeviceIoControl.
MeasuredDrives ==
    {io.drives[k].path : k \in {j \in 1..Len(io.drives) :
        /\ io.drives[j].type = DRIVE_FIXED
        /\ io.drives[j].open = "ok"
        /\ io.drives[j].ioctl = "ok"}}

\* The range loop of IOCountersWithContext ran to its end.
IoLoopCompleted ==
    /\ io.pc \in {"return", "returned"}
    /\ io.err = "nil"
    /\ io.lpBuffer # <<>> => io.i = Len(io.lpBuffer)
    /\ io.drives # <<>> => Last(io.drives).type # DRIVE_UNKNOWN

\* C12: the ReadTime and WriteTime of every entry of drivemap are the raw
\* 100ns counts DeviceIoControl reported, in whole milliseconds (10,000
\* ticks each), so that 10,000,000 ticks are stored as 1000.
C12_StoredTimesAreMilliseconds ==
    \A k \in 1..Len(io.drives) :
        io.drives[k].ioctl = "ok" =>
            /\ io.drivemap[io.drives[k].path].ReadTime
                  = io.drives[k].ReadTime \div 10000
            /\ io.drivemap[io.drives[k].path].WriteTime
                  = io.drives[k].WriteTime \div 10000
            /\ io.drives[k].ReadTime = 10000000 =>
                  io.drivemap[io.drives[k].path].ReadTime = 1000

\* C13: drivemap holds an entry for exactly the logged drives that were
\* classified Fixed, opened and measured; a Fixed drive whose CreateFile
\* call failed with ERROR_FILE_NOT_FOUND has no entry, the loop goes on
\* after it and it is not the reason an error is returned; and a loop that
\* ran to its end has visited every drive of the buffer.
C13_OnlyFixedNotFoundAbsent ==
    /\ DOMAIN io.drivemap = MeasuredDrives
    /\ \A q \in DOMAIN io.drivemap : io.drivemap[q].Name = q
    /\ \A k \in 1..Len(io.drives) :
          io.drives[k].open = "ERROR_FILE_NOT_FOUND" =>
              /\ io.drives[k].type = DRIVE_FIXED
              /\ io.drives[k].path \notin DOMAIN io.drivemap
              /\ k = Len(io.drives) =>
                    /\ io.pc \in {"range", "type", "return", "returned"}
                    /\ io.err = "nil"
                    /\ io.pc \in {"return", "returned"} =>
                          io.i = Len(io.lpBuffer)
    /\ IoLoopCompleted =>
          Len(io.drives) * 4 = Len(io.lpBuffer)
    /\ io.pc = "returned" => io.closed = io.opened

C13_Witness ==
    /\ io.pc = "returned"
    /\ io.err = "nil"
    /\ Len(io.drives) = 3
    /\ io.drives[1].ioctl = "ok"
    /\ io.drives[2].open = "ERROR_FILE_NOT_FOUND"
    /\ io.drives[3].ioctl = "ok"
    /\ Cardinality(DOMAIN io.drivemap) = 2

\* C14: as long as the context is not cancelled, the producer eventually
\* closes retChan and PartitionsWithContext returns, whatever the cursor
\* answers.
C14_PipelineTerminates ==
    <>(ctx # "active" \/ (ppc = "done" /\ cpc = "returned"))

\* C15 as claimed: once the consumer has returned through ctx.Done(), the
\* producer makes no FindNextVolume call.
C15_NoAdvanceAfterCancel ==
    [][branch = "ctx" => ~(ppc = "next" /\ ppc' = "next_ret")]_vars

\* C15, amended: once the consumer has returned, no record is received any
\* more and the producer stops at its next send, where only the quitChan
\* case is ready: at most one record is built after the return; and a
\* producer that is past its deferred close after a successful open has
\* released the handle.
C15_StopsAtNextSend ==
    /\ cpc = "returned" =>
          /\ ret = result.records
          /\ Len(generated) <= Len(result.records) + 1
          /\ ~ENABLED SendReceive
          /\ ppc = "send" => ENABLED ProducerQuit
    /\ (branch = "ctx" /\ ppc \in {"close_chan", "done"}
            /\ nextVolHandle # "invalid") =>
          /\ nextVolHandle = "closed"
          /\ closeCalls = 1

C15_Witness ==
    /\ branch = "ctx"
    /\ ppc = "done"
    /\ Len(volumes) = 2
    /\ volumes[1].driveType = DRIVE_UNKNOWN
    /\ Len(generated) = 1
    /\ result.records = <<>>
    /\ "FindVolumeClose" \in calls

\* The number of mount paths of logged volume v whose lookup succeeded.
OkCount(v) == Cardinality({i \in 1..Len(v.info) : v.info[i].ok})

RECURSIVE OkTotal(_)
OkTotal(vs) ==
    IF vs = <<>> THEN 0
    ELSE OkCount(Last(vs)) + OkTotal(SubSeq(vs, 1, Len(vs) - 1))

\* C16: every mount path of an inspected volume is looked up on its own:
\* a successful lookup yields exactly one record for that path, a failed
\* one yields none and leaves the volume's other paths their records, and
\* the loop leaves a volume only after its last path; a volume with no
\* mount path is neither classified nor looked up and yields no record.
C16_PathByPath ==
    /\ Len(generated) = OkTotal(volumes)
    /\ \A k \in 1..Len(volumes) :
          LET v == volumes[k]
          IN  /\ Len(v.info) <= Len(v.paths)
              /\ \A i \in 1..Len(v.info) :
                    Cardinality(RecordsOf(generated, {TrimRight(v.paths[i], 92)}))
                        = IF v.info[i].ok THEN 1 ELSE 0
              /\ (v.driveType \in FourTypes
                      /\ (k < Len(volumes) \/ ppc \in {"next", "next_ret"})) =>
                    Len(v.info) = Len(v.paths)
              /\ v.paths = <<>> => v.driveType = "none" /\ v.info = <<>>
    /\ \A j \in 1..Len(generated) :
          \E k \in 1..Len(volumes) :
              generated[j].Mountpoint \in VolumeMountpoints(volumes[k])

C16_Witness ==
    /\ branch = "closed"
    /\ Len(volumes) = 2
    /\ volumes[1].driveType = DRIVE_FIXED
    /\ Len(volumes[1].info) = 2
    /\ volumes[1].info[1].ok
    /\ ~volumes[1].info[2].ok
    /\ ~volumes[2].pathsErr
    /\ volumes[2].paths = <<>>
    /\ Len(result.records) = 1
    /\ Len(result.warnings) = 1

\* C17: the Opts of a record start with "ro" when the read-only-volume bit
\* of fsFlags is set and with "rw" otherwise, "compress" follows exactly
\* when the file-compression bit is set, and nothing else is in the list,
\* whatever the other bits are.
C17_OptsFromTwoFlags ==
    fs.pc = "built" =>
        /\ pending.Opts[1] = IF fs.readOnly THEN "ro" ELSE "rw"
        /\ Len(pending.Opts) = IF fs.compress THEN 2 ELSE 1
        /\ fs.compress => pending.Opts[2] = "compress"
        /\ pending.Opts \in {<<"rw">>, <<"ro">>, <<"rw", "compress">>,
                             <<"ro", "compress">>}

C17_Witness ==
    /\ fs.pc = "built"
    /\ fs.readOnly
    /\ fs.compress
    /\ fs.other = OtherFlagBits
    /\ pending.Opts = <<"ro", "compress">>

\* C18: a producer waiting in the select of line 182 always has a partner:
\* the consumer is still in its loop, or quitChan is closed, and one of the
\* two cases can be taken; quitChan is closed at most once, exactly when
\* the consumer returns; retChan is closed exactly when the producer ends,
\* after which nothing is offered on it; and no state but the final one is
\* without a step.
C18_SendNeverStuck ==
    /\ ppc = "send" =>
          /\ cpc = "loop" \/ quitCloses > 0
          /\ ENABLED SendReceive \/ ENABLED ProducerQuit
    /\ quitCloses <= 1
    /\ quitCloses = 1 <=> cpc = "returned"
    /\ retChanClosed <=> ppc = "done"
    /\ retChanClosed => pending = NoPartition /\ ~ENABLED SendReceive
    /\ (ppc = "done" /\ cpc = "returned") \/ ENABLED Next

C18_Witness ==
    /\ ppc = "send"
    /\ cpc = "returned"
    /\ quitCloses = 1
    /\ Len(ret) = 1
    /\ Len(generated) = 2

\* C19: the closed-channel case can be taken only when the producer has
\* ended and can write nothing any more, and what it returned is the final
\* value of the shared state; the ctx.Done() case returns neither the
\* warnings nor the first-volume error, while the producer may go on.
C19_SharedStateReadAfterExit ==
    /\ retChanClosed => ppc = "done"
    /\ ppc = "done" => ~ENABLED Producer
    /\ ENABLED ConsumerClosed => ppc = "done"
    /\ branch = "closed" =>
          /\ ppc = "done"
          /\ result.kind = "warnings" =>
                result.warnings = warnings /\ errFirstVol = "nil"
          /\ result.kind = "first_volume" => errFirstVol # "nil"
    /\ branch = "ctx" =>
          /\ result.kind = "ctx"
          /\ result.warnings = <<>>

C19_Witness ==
    /\ branch = "ctx"
    /\ ppc = "next"
    /\ Len(warnings) = 2
    /\ result.warnings = <<>>

\* C20: what PartitionsWithContext returns beside the records follows from
\* the select case taken: through the closed channel the first-volume
\* error when it is set and the warnings otherwise, through ctx.Done()
\* ctx.Err() and no warning; and when retChan is closed and the context
\* done, both cases can be taken.
C20_ErrorDecidedByBranch ==
    /\ branch = "none" <=> result.kind = "none"
    /\ branch = "ctx" <=> result.kind = "ctx"
    /\ branch = "closed" <=> result.kind \in {"first_volume", "warnings"}
    /\ branch = "closed" =>
          /\ result.records = ret
          /\ IF errFirstVol # "nil"
             THEN result.kind = "first_volume" /\ result.warnings = <<>>
             ELSE result.kind = "warnings" /\ result.warnings = warnings
    /\ branch = "ctx" =>
          /\ result.ctxErr = ctx
          /\ result.warnings = <<>>
    /\ (cpc = "loop" /\ retChanClosed /\ ctx # "active") =>
          /\ ENABLED ConsumerClosed
          /\ ENABLED ConsumerCtxDone

C20_Witness ==
    /\ branch = "closed"
    /\ ctx # "active"
    /\ result.kind = "first_volume"

====
